---- MODULE Spec2Model ----
(***************************************************************************)
(* Verification model of tinySafetyNet:                                    *)
(*   - the int8 quantizer of streamlit-int8-app/app.py,                    *)
(*   - the batch export of Shiny-R/"Convert dataset to excel.py",          *)
(*   - the pad/truncate steps of week1/streamlit-int8-app/app.py,          *)
(*   - the Streamlit script runs of both apps (model loading, temp files,  *)
(*     inference, MQTT notification).                                      *)
(* Each part has its own specification; the variables of the other parts   *)
(* stay parked while one part runs.                                        *)
(***************************************************************************)
EXTENDS Integers, Sequences, FiniteSets, TLC

VARIABLES
    \* ---- quantizer (streamlit-int8-app/app.py) ----
    qpc,          \* "off" | "input" | "quantized" | "dequantized"
    x_in,         \* float value x, as the numerator of x_in / QDen
    scale,        \* model-supplied scale, as the numerator of scale / QDen
    zero_point,   \* model-supplied zero point (int8)
    q,            \* the int8 value after quantization
    deq,          \* dequantized value, numerator over QDen
    \* ---- batch export (Shiny-R/Convert dataset to excel.py) ----
    epc,          \* "off" | "walk" | "written"
    root,         \* index into DirNames of the folder os.walk is in (0: none yet)
    file,         \* the entry of the sorted listing looked at last ("" : none)
    current_time, \* datetime, as seconds since 00:00:00 of its first day
    audio_id,
    nrows,        \* len(rows)
    rows_tail,    \* the last two rows appended to rows, oldest first
    nmatching,    \* files seen so far whose name ends in .wav (any letter case)
    \* ---- pad / truncate (week1/streamlit-int8-app/app.py, preprocess_audio) ----
    ppc,          \* "off" | "trimmed" | "padded" | "mfcc" | "fixed" | "tensor"
    wav,          \* [len, seed]: which waveform librosa.load and trim produced
    y,            \* the waveform, a sequence of samples
    feat,         \* [frames, seed]: which matrix librosa.feature.mfcc produced
    mfcc,         \* the MFCC matrix, a sequence of N_MFCC rows of frames
    input_shape,  \* shape of input_tensor
    \* ---- the Streamlit apps (streamlit-int8-app/app.py, week1/.../app.py) ----
    \* what is on disk, fixed for the life of the process
    app,             \* "int8" | "week1": which script runs
    model_file,      \* the .tflite file exists
    classes_file,    \* content of classes.npy, <<>> when the file is missing
    model_shape,     \* input_details[0]["shape"] of the model file
    model_int8,      \* input_details[0]["dtype"] == np.int8
    \* the process
    apc,             \* position in the script run, "off" | "idle" | ...
    cache,           \* st.cache_resource: "empty" | "hit"
    interpreter,     \* "unset" | "None" | "ready"
    classes,         \* the label table in use, <<>> for None
    load_calls,      \* times the body of the cached loader ran
    runs,            \* script runs (user interactions) so far
    tmp_files,       \* temporary audio files now on disk
    remove_failures, \* os.remove calls that failed so far
    live_clients,    \* MQTT clients left connected or looping by returned calls
    send_failures,   \* send_to_wokwi calls that returned False so far
    \* the current script run
    sources,         \* audio inputs still to handle in this run
    source,          \* the input analyze_audio is handling
    pressed,         \* the input whose "Analyze Audio" button was pressed, or "none"
    ui,              \* elements shown to the user in this run
    uncaught,        \* the call whose exception left the script, or "none"
    tensor_shape,    \* shape of the tensor preprocessing produced, <<>> if none
    quantized,       \* the int8 quantization ran in this run
    tensor_given,    \* interpreter.set_tensor was called in this run
    invoked,         \* interpreter.invoke returned in this run
    audio_ok,        \* "unset" | "True" | "False": librosa.load succeeded
    probs,           \* output of the model, <<>> if none
    pred_idx,
    emotion,
    mqtt_cmd,
    sent,            \* "unset" | "True" | "False": what send_to_wokwi returned
    \* the current send_to_wokwi call
    client,          \* [connected, loop] of the client the call created
    rc,              \* msg_info.rc, "" before publish
    acked,           \* the broker's acknowledgment arrived during the wait
    published,       \* payload handed to client.publish, "" if none
    send_calls,      \* calls of send_to_wokwi in this run
    publish_calls    \* calls of client.publish in this run

quantVars == <<qpc, x_in, scale, zero_point, q, deq>>
exportVars == <<epc, root, file, current_time, audio_id, nrows, rows_tail, nmatching>>
padVars == <<ppc, wav, y, feat, mfcc, input_shape>>
diskVars == <<app, model_file, classes_file, model_shape, model_int8>>
procVars == <<cache, interpreter, classes, load_calls, runs, tmp_files,
              remove_failures, live_clients, send_failures>>
runVars == <<sources, source, pressed, ui, uncaught, tensor_shape, quantized,
             tensor_given, invoked, audio_ok, probs, pred_idx, emotion, mqtt_cmd, sent>>
mqttVars == <<client, rc, acked, published, send_calls, publish_calls>>
appVars == <<diskVars, apc, procVars, runVars, mqttVars>>

vars == <<quantVars, exportVars, padVars, appVars>>

(***************************************************************************)
(* Quantizer.  Floats are modelled as exact rationals: a tensor value and  *)
(* the scale are multiples of 1/QDen, so x / scale is the exact rational   *)
(* x_in / scale and no rounding of the model hides an error of the code.   *)
(***************************************************************************)
QDen == 256          \* resolution of the modelled floats (x = x_in / QDen)
MaxScale == 3        \* scales 1/QDen .. MaxScale/QDen
INT8_MIN == -128
INT8_MAX == 127

Int8 == INT8_MIN..INT8_MAX

\* C cast float -> integer as numpy astype does for in-range values:
\* truncation toward zero of the rational num / den (den > 0)
AsInt8(num, den) ==
    IF num >= 0 THEN num \div den ELSE -((-num) \div den)

\* np.clip of the rational num / den to [lo, hi]; result is a numerator over den
Clip(num, den, lo, hi) ==
    IF num < lo * den THEN lo * den
    ELSE IF num > hi * den THEN hi * den
    ELSE num

\* Quantize without the zero point
Quantize_NoZeroPoint(xn, sn, zp) ==
    AsInt8(Clip(xn, sn, INT8_MIN, INT8_MAX), sn)

\* mel_db / scale + zero_point ; np.clip(..., -128, 127).astype(np.int8)
\* x / scale + zero_point = (xn + zp * sn) / sn
Quantize(xn, sn, zp) ==
    AsInt8(Clip(xn + zp * sn, sn, INT8_MIN, INT8_MAX), sn)

\* (output.astype(np.float32) - zero_point) * scale, numerator over QDen
Dequantize(qv, sn, zp) == (qv - zp) * sn

ExportOff ==
    /\ epc = "off" /\ root = 0 /\ file = "" /\ current_time = 0
    /\ audio_id = 0 /\ nrows = 0 /\ rows_tail = <<>> /\ nmatching = 0

QuantOff ==
    /\ qpc = "off" /\ x_in = 0 /\ scale = 1 /\ zero_point = 0 /\ q = 0 /\ deq = 0

PadOff ==
    /\ ppc = "off" /\ wav = [len |-> 0, seed |-> 0] /\ y = <<>>
    /\ feat = [frames |-> 0, seed |-> 0] /\ mfcc = <<>> /\ input_shape = <<>>

NoClient == [connected |-> FALSE, loop |-> FALSE]

\* the per-run variables as a script run finds them
RunReset ==
    /\ ui = {} /\ uncaught = "none" /\ tensor_shape = <<>>
    /\ quantized = FALSE /\ tensor_given = FALSE /\ invoked = FALSE
    /\ audio_ok = "unset" /\ probs = <<>> /\ pred_idx = 0 /\ emotion = ""
    /\ mqtt_cmd = "" /\ sent = "unset"
    /\ client = NoClient /\ rc = "" /\ acked = FALSE /\ published = ""
    /\ send_calls = 0 /\ publish_calls = 0

AppOff ==
    /\ app = "none" /\ model_file = FALSE /\ classes_file = <<>>
    /\ model_shape = <<>> /\ model_int8 = FALSE
    /\ apc = "off" /\ cache = "empty" /\ interpreter = "unset" /\ classes = <<>>
    /\ load_calls = 0 /\ runs = 0 /\ tmp_files = 0 /\ remove_failures = 0
    /\ live_clients = 0 /\ send_failures = 0
    /\ sources = <<>> /\ source = "none" /\ pressed = "none"
    /\ RunReset

QuantInit ==
    /\ ExportOff
    /\ PadOff
    /\ AppOff
    /\ qpc = "input"
    /\ x_in \in 0..(QDen - 1)       \* min-max normalised values lie in [0, 1)
    /\ scale \in 1..MaxScale        \* scale > 0
    /\ zero_point \in Int8
    /\ q = 0
    /\ deq = 0

QuantizeStep ==
    /\ qpc = "input"
    /\ q' = Quantize(x_in, scale, zero_point)
    /\ qpc' = "quantized"
    /\ UNCHANGED <<x_in, scale, zero_point, deq>>
    /\ UNCHANGED <<exportVars, padVars, appVars>>

DequantizeStep ==
    /\ qpc = "quantized"
    /\ deq' = Dequantize(q, scale, zero_point)
    /\ qpc' = "dequantized"
    /\ UNCHANGED <<x_in, scale, zero_point, q>>
    /\ UNCHANGED <<exportVars, padVars, appVars>>

QuantNext == QuantizeStep \/ DequantizeStep

SpecQuant == QuantInit /\ [][QuantNext]_vars

Abs(n) == IF n < 0 THEN -n ELSE n

\* |dequant(quant(x)) - x| <= scale, both sides as numerators over QDen
WithinOneStep == Abs(deq - x_in) <= scale

\* x / scale + zero_point lies in [lo, hi]
AffineIn(lo, hi) ==
    /\ lo * scale <= x_in + zero_point * scale
    /\ x_in + zero_point * scale <= hi * scale

\* C1 (as stated): for every x and every (scale > 0, zero_point), quantizing
\* x and dequantizing the result with the same pair recovers x within one
\* quantization step.
C1_RoundTripAlways ==
    qpc = "dequantized" => WithinOneStep

\* C1 (amended): the round trip recovers x within one quantization step
\* exactly when x / scale + zero_point lies in [-129, 128], the values the
\* clip moves by at most one step; outside that range the result saturates
\* at -128 or 127 and the error exceeds one step.
C1_RoundTripInRange ==
    qpc = "dequantized" =>
        (WithinOneStep <=> AffineIn(INT8_MIN - 1, INT8_MAX + 1))

\* a round trip of a value that is truncated (not a whole number of steps),
\* negative after the affine map, and inside the int8 range
C1_Witness ==
    /\ qpc = "dequantized"
    /\ AffineIn(INT8_MIN, INT8_MAX)
    /\ x_in + zero_point * scale < 0
    /\ deq # x_in
    /\ WithinOneStep

(***************************************************************************)
(* Batch export.  os.walk visits the folders in sorted order and, in each, *)
(* the sorted file names; one step of the model looks at one entry.  The   *)
(* list rows only grows at its end, so the model keeps its length and its  *)
(* last two rows: that is what a statement about neighbouring rows reads.  *)
(***************************************************************************)
TIME_GAP == 3
START_TIME == 9 * 3600          \* strptime("09:00:00", "%H:%M:%S")
DAY == 24 * 3600
MaxRows == 18002                \* rows the modelled trees hold at most

\* the folders of the tree, as os.walk meets them once dirs is sorted: the
\* top folder, then its subfolders; a name is its "_"-separated parts
DirNames == << <<"archive">>, <<"OAF", "angry">>, <<"OAF", "happy">>, <<"YAF", "sad">> >>

\* file names, reduced to their extension as written
FileNames == {".wav", ".WAV", ".txt"}

\* str.lower() on the extension
Lower(name) == IF name = ".WAV" THEN ".wav" ELSE name

\* IsWav without the lower-casing
IsWav_CaseSensitive(name) == name = ".wav"

\* file.lower().endswith(".wav")
IsWav(name) == Lower(name) = ".wav"

\* os.path.basename(root).split("_")[-1]
Emotion(dir) == DirNames[dir][Len(DirNames[dir])]

\* current_time.strftime("%H:%M:%S"): the clock time only, as the three
\* two-digit fields of the string
Strftime(t) ==
    LET sod == t % DAY
    IN  << sod \div 3600, (sod % 3600) \div 60, sod % 60 >>

\* rows.append(...), keeping the last two rows
AppendRow(tail, row) ==
    IF Len(tail) < 2 THEN Append(tail, row) ELSE << tail[2], row >>

ExportInit ==
    /\ QuantOff
    /\ PadOff
    /\ AppOff
    /\ epc = "walk"
    /\ root = 0
    /\ file = ""
    /\ current_time = START_TIME
    /\ audio_id = 1
    /\ nrows = 0
    /\ rows_tail = <<>>
    /\ nmatching = 0

\* for root, dirs, files in os.walk(...): the next folder in sorted order
NextDir ==
    /\ epc = "walk"
    /\ root < Len(DirNames)
    /\ root' = root + 1
    /\ file' = ""
    /\ UNCHANGED <<epc, current_time, audio_id, nrows, rows_tail, nmatching>>
    /\ UNCHANGED <<quantVars, padVars, appVars>>

\* the name ends in ".wav", in any letter case
EndsInWav(name) == name \in {".wav", ".WAV"}

\* for file in files: a name that matches gets a row, any other is skipped
VisitFile ==
    /\ epc = "walk"
    /\ root >= 1
    /\ \E name \in FileNames :
        /\ file' = name
        /\ nmatching' = nmatching + (IF EndsInWav(name) THEN 1 ELSE 0)
        /\ IF IsWav(name)
           THEN /\ nrows < MaxRows
                /\ rows_tail' = AppendRow(rows_tail,
                        [id |-> audio_id,
                         time |-> Strftime(current_time),
                         inference_of_emotion |-> Emotion(root)])
                /\ nrows' = nrows + 1
                /\ current_time' = current_time + TIME_GAP
                /\ audio_id' = audio_id + 1
           ELSE UNCHANGED <<current_time, audio_id, nrows, rows_tail>>
    /\ UNCHANGED <<epc, root>>
    /\ UNCHANGED <<quantVars, padVars, appVars>>

\* the walk is over: df = pd.DataFrame(rows); df.to_excel(...)
WriteExcel ==
    /\ epc = "walk"
    /\ root = Len(DirNames)
    /\ epc' = "written"
    /\ UNCHANGED <<root, file, current_time, audio_id, nrows, rows_tail, nmatching>>
    /\ UNCHANGED <<quantVars, padVars, appVars>>

ExportNext == NextDir \/ VisitFile \/ WriteExcel

SpecExport == ExportInit /\ [][ExportNext]_vars

\* the clock time a "time" string names, in seconds
ParseTime(str) == str[1] * 3600 + str[2] * 60 + str[3]

\* string order of two "HH:MM:SS" values
TimeLess(a, b) ==
    \/ a[1] < b[1]
    \/ a[1] = b[1] /\ a[2] < b[2]
    \/ a[1] = b[1] /\ a[2] = b[2] /\ a[3] < b[3]

\* the last row is row number nrows; its id, and its time against the row before
LastRowIdOk ==
    nrows >= 1 => rows_tail[Len(rows_tail)].id = nrows

FirstRowTimeOk ==
    nrows = 1 => rows_tail[1].time = <<9, 0, 0>>

LastRowTimeOk ==
    nrows >= 2 =>
        /\ TimeLess(rows_tail[1].time, rows_tail[2].time)
        /\ ParseTime(rows_tail[2].time) = ParseTime(rows_tail[1].time) + TIME_GAP

RowsBeforeMidnight == (DAY - START_TIME) \div TIME_GAP

SAMPLE_RATE == 22050
DURATION == 3
TARGET_LENGTH == SAMPLE_RATE * DURATION      \* int(22050 * 3.0) = 66150
EXPECTED_FRAMES == 130
N_MFCC == 40
MaxExtra == 2        \* lengths and frame counts up to MaxExtra around the targets
MaxSeed == 2         \* distinct sample patterns

\* sample i of waveform number seed; the patterns hold zero and non-zero samples
Sample(seed, i) == ((i * seed + seed) % 5) - 2

Wave(len, seed) == SubSeq([i \in 1..len |-> Sample(seed, i)], 1, len)

\* coefficient r of frame c of matrix number seed
Coeff(seed, r, c) == ((r + c * seed) % 7) - 3

MfccMatrix(frames, seed) ==
    [r \in 1..N_MFCC |-> SubSeq([c \in 1..frames |-> Coeff(seed, r, c)], 1, frames)]

WaveLens ==
    (0..MaxExtra) \cup ((TARGET_LENGTH - MaxExtra)..(TARGET_LENGTH + MaxExtra))

FrameCounts ==
    (0..MaxExtra) \cup ((EXPECTED_FRAMES - MaxExtra)..(EXPECTED_FRAMES + MaxExtra))

\* np.pad(v, (0, n), 'constant'): n zeros after the last element
PadRight(v, n) == v \o [i \in 1..n |-> 0]

\* PadOrTruncate with the zeros before the samples
PadOrTruncate_PadLeft(v) ==
    IF Len(v) > TARGET_LENGTH
    THEN SubSeq(v, 1, TARGET_LENGTH)
    ELSE [i \in 1..(TARGET_LENGTH - Len(v)) |-> 0] \o v

\* if len(y) > TARGET_LENGTH: y = y[:TARGET_LENGTH]
\* else: y = np.pad(y, (0, TARGET_LENGTH - len(y)), 'constant')
PadOrTruncate(v) ==
    IF Len(v) > TARGET_LENGTH
    THEN SubSeq(v, 1, TARGET_LENGTH)
    ELSE PadRight(v, TARGET_LENGTH - Len(v))

\* curr = mfcc.shape[1]
\* if curr < EXPECTED_FRAMES: np.pad(mfcc, ((0, 0), (0, pad_width)), mode='constant')
\* else: mfcc[:, :EXPECTED_FRAMES]
FixTimeSteps(m) ==
    LET curr == Len(m[1])
    IN  IF curr < EXPECTED_FRAMES
        THEN [r \in 1..Len(m) |-> PadRight(m[r], EXPECTED_FRAMES - curr)]
        ELSE [r \in 1..Len(m) |-> SubSeq(m[r], 1, EXPECTED_FRAMES)]

\* np.expand_dims(mfcc, axis=0), then axis=-1: (1, rows, frames, 1)
ExpandDims(m) == <<1, Len(m), Len(m[1]), 1>>

PadInit ==
    /\ QuantOff
    /\ ExportOff
    /\ AppOff
    /\ ppc = "trimmed"
    /\ wav \in [len : WaveLens, seed : 1..MaxSeed]
    /\ y = Wave(wav.len, wav.seed)
    /\ feat = [frames |-> 0, seed |-> 0]
    /\ mfcc = <<>>
    /\ input_shape = <<>>

\* lines 120-125
PadTruncateStep ==
    /\ ppc = "trimmed"
    /\ y' = PadOrTruncate(y)
    /\ ppc' = "padded"
    /\ UNCHANGED <<wav, feat, mfcc, input_shape>>
    /\ UNCHANGED <<quantVars, exportVars, appVars>>

\* lines 127-129: the library returns N_MFCC rows of some number of frames
MfccStep ==
    /\ ppc = "padded"
    /\ \E f \in [frames : FrameCounts, seed : 1..MaxSeed] :
        /\ feat' = f
        /\ mfcc' = MfccMatrix(f.frames, f.seed)
    /\ ppc' = "mfcc"
    /\ UNCHANGED <<wav, y, input_shape>>
    /\ UNCHANGED <<quantVars, exportVars, appVars>>

\* lines 131-137
FixTimeStepsStep ==
    /\ ppc = "mfcc"
    /\ mfcc' = FixTimeSteps(mfcc)
    /\ ppc' = "fixed"
    /\ UNCHANGED <<wav, y, feat, input_shape>>
    /\ UNCHANGED <<quantVars, exportVars, appVars>>

\* lines 139-143
ExpandDimsStep ==
    /\ ppc = "fixed"
    /\ input_shape' = ExpandDims(mfcc)
    /\ ppc' = "tensor"
    /\ UNCHANGED <<wav, y, feat, mfcc>>
    /\ UNCHANGED <<quantVars, exportVars, appVars>>

PadNext == PadTruncateStep \/ MfccStep \/ FixTimeStepsStep \/ ExpandDimsStep

SpecPad == PadInit /\ [][PadNext]_vars

\* out has exactly n elements: the first min(len, n) are the samples of
\* waveform number seed (of length len), in place, and every later one is zero
WavePrefixThenZeros(len, seed, out, n) ==
    /\ Len(out) = n
    /\ \A i \in 1..n :
        out[i] = (IF i <= len THEN Sample(seed, i) ELSE 0)

\* the same for row r of matrix number seed, of the given number of frames
RowPrefixThenZeros(frames, seed, r, out, n) ==
    /\ Len(out) = n
    /\ \A c \in 1..n :
        out[c] = (IF c <= frames THEN Coeff(seed, r, c) ELSE 0)

\* C7: for a waveform of any length the pad/truncate step returns exactly
\* TARGET_LENGTH samples, the original samples an unchanged prefix and zeros
\* after them; and for any frame count the matrix gets exactly 130 frames,
\* the original frames an unchanged prefix and zero columns after them.
C7_PadTruncate ==
    /\ ppc \in {"padded", "mfcc", "fixed", "tensor"} =>
            WavePrefixThenZeros(wav.len, wav.seed, y, TARGET_LENGTH)
    /\ ppc \in {"fixed", "tensor"} =>
            /\ Len(mfcc) = N_MFCC
            /\ \A r \in 1..N_MFCC :
                RowPrefixThenZeros(feat.frames, feat.seed, r, mfcc[r],
                                   EXPECTED_FRAMES)
    /\ ppc = "tensor" => input_shape = <<1, N_MFCC, EXPECTED_FRAMES, 1>>

\* a short waveform was padded and a short matrix got zero columns
C7_Witness ==
    /\ ppc = "tensor"
    /\ wav.len = TARGET_LENGTH - 1
    /\ y[TARGET_LENGTH - 1] # 0
    /\ y[TARGET_LENGTH] = 0
    /\ feat.frames = EXPECTED_FRAMES - 1
    /\ mfcc[1][EXPECTED_FRAMES - 1] # 0
    /\ mfcc[1][EXPECTED_FRAMES] = 0

(***************************************************************************)
(* The Streamlit apps.  Streamlit runs the script from top to bottom on    *)
(* every user interaction; st.cache_resource keeps the loader's result for *)
(* the life of the process.  Files, the broker, the audio decoder and the  *)
(* interpreter are the environment: each call that can fail either returns *)
(* or raises.  An exception that leaves the script ends that run and is    *)
(* shown by Streamlit in place of the rest of the page.                    *)
(***************************************************************************)
MaxRuns == 3          \* script runs of one process

Apps == {"int8", "week1"}

\* np.array([...]) of load_resources, and the same labels in another order
DEFAULT_CLASSES == <<"angry", "disgust", "fear", "happy", "neutral", "sad", "surprise">>
OTHER_CLASSES == <<"fear", "angry", "happy", "sad", "neutral", "disgust", "surprise">>

\* what classes.npy may hold; <<>> stands for a missing file
ClassFiles == {<<>>, DEFAULT_CLASSES, OTHER_CLASSES}

ID_TO_LABEL == <<"Safe/Neutral", "DANGER (Fear)", "Caution (Angry)">>

\* (1, 1, 64, 64), the tensor of the int8 app; (1, 40, 130, 1), that of week1
MEL_SHAPE == <<1, 1, 64, 64>>
MFCC_SHAPE == <<1, N_MFCC, EXPECTED_FRAMES, 1>>
ModelShapes == {MEL_SHAPE, MFCC_SHAPE}

\* output vectors of a model with n classes: a clear winner at each index,
\* and a tie between the first two (in percent)
Outputs(n) ==
    {[i \in 1..n |-> IF i = k THEN 70 ELSE 5] : k \in 1..n}
        \cup {[i \in 1..n |-> IF i <= 2 THEN 40 ELSE 4]}

\* np.argmax: the first index of the largest value (indices from 1 here)
Argmax(p) ==
    CHOOSE i \in 1..Len(p) :
        /\ \A j \in 1..Len(p) : p[j] <= p[i]
        /\ \A j \in 1..(i - 1) : p[j] < p[i]

\* MqttCmd with the two alert codes swapped
MqttCmd_Swapped(label) ==
    IF label = "fear" THEN "C"
    ELSE IF label = "angry" THEN "D"
    ELSE "S"

\* lines 185-196 of the week1 app
MqttCmd(label) ==
    IF label = "fear" THEN "D"
    ELSE IF label = "angry" THEN "C"
    ELSE "S"

AppInit ==
    /\ QuantOff
    /\ ExportOff
    /\ PadOff
    /\ app \in Apps
    /\ model_file \in BOOLEAN
    /\ classes_file \in (IF app = "week1" THEN ClassFiles ELSE {<<>>})
    /\ model_shape \in ModelShapes
    /\ model_int8 \in (IF app = "int8" THEN BOOLEAN ELSE {FALSE})
    /\ apc = "idle"
    /\ cache = "empty"
    /\ interpreter = "unset"
    /\ classes = <<>>
    /\ load_calls = 0 /\ runs = 0 /\ tmp_files = 0 /\ remove_failures = 0
    /\ live_clients = 0 /\ send_failures = 0
    /\ sources = <<>> /\ source = "none" /\ pressed = "none"
    /\ RunReset

OtherParts == <<quantVars, exportVars, padVars>>

\* the per-run variables at the start of a script run
StartOfRun ==
    /\ ui' = {} /\ uncaught' = "none" /\ tensor_shape' = <<>>
    /\ quantized' = FALSE /\ tensor_given' = FALSE /\ invoked' = FALSE
    /\ audio_ok' = "unset" /\ probs' = <<>> /\ pred_idx' = 0 /\ emotion' = ""
    /\ mqtt_cmd' = "" /\ sent' = "unset"
    /\ client' = NoClient /\ rc' = "" /\ acked' = FALSE /\ published' = ""
    /\ send_calls' = 0 /\ publish_calls' = 0

\* an exception leaves the script: Streamlit shows it and the run is over
Uncaught(call) ==
    /\ uncaught' = call
    /\ ui' = ui \cup {"exception"}
    /\ apc' = "idle"

\* a user interaction reruns the script.  week1: a file may be uploaded, a
\* note recorded, and the button of one of them pressed.  int8: a file may
\* be uploaded.
StartRun ==
    /\ apc = "idle"
    /\ runs < MaxRuns
    /\ runs' = runs + 1
    /\ \E up \in BOOLEAN, rec \in (IF app = "week1" THEN BOOLEAN ELSE {FALSE}) :
        /\ sources' = (IF up THEN <<"upload">> ELSE <<>>)
                            \o (IF rec THEN <<"record">> ELSE <<>>)
        /\ pressed' \in {"none"}
                \cup (IF app = "week1" /\ up THEN {"upload"} ELSE {})
                \cup (IF app = "week1" /\ rec THEN {"record"} ELSE {})
    /\ source' = "none"
    /\ StartOfRun
    /\ apc' = "load"
    /\ UNCHANGED <<cache, interpreter, classes, load_calls, tmp_files,
                   remove_failures, live_clients, send_failures>>
    /\ UNCHANGED <<diskVars, OtherParts>>

\* LoadResources without the cache: the body runs in every script run
LoadResources_NoCache ==
    /\ apc = "load"
    /\ app = "week1"
    /\ load_calls' = load_calls + 1
    /\ cache' = "hit"
    /\ IF ~model_file
       THEN /\ ui' = ui \cup {"error: Model file not found"}
            /\ interpreter' = "None"
            /\ classes' = <<>>
       ELSE /\ interpreter' = "ready"
            /\ classes' = (IF classes_file # <<>> THEN classes_file
                           ELSE DEFAULT_CLASSES)
            /\ UNCHANGED ui
    /\ apc' = "tabs"
    /\ UNCHANGED <<runs, tmp_files, remove_failures, live_clients, send_failures>>
    /\ UNCHANGED <<sources, source, pressed, uncaught, tensor_shape, quantized,
                   tensor_given, invoked, audio_ok, probs, pred_idx, emotion,
                   mqtt_cmd, sent>>
    /\ UNCHANGED <<diskVars, mqttVars, OtherParts>>

\* week1: interpreter, classes = load_resources(), under st.cache_resource.
\* A cached result is returned without running the body, and the elements
\* the body showed are shown again.
LoadResources ==
    /\ apc = "load"
    /\ app = "week1"
    /\ IF cache = "hit"
       THEN /\ ui' = ui \cup (IF interpreter = "None"
                               THEN {"error: Model file not found"} ELSE {})
            /\ UNCHANGED <<cache, interpreter, classes, load_calls>>
       ELSE /\ load_calls' = load_calls + 1
            /\ cache' = "hit"
            /\ IF ~model_file
               THEN /\ ui' = ui \cup {"error: Model file not found"}
                    /\ interpreter' = "None"
                    /\ classes' = <<>>
               ELSE /\ interpreter' = "ready"
                    /\ classes' = (IF classes_file # <<>> THEN classes_file
                                   ELSE DEFAULT_CLASSES)
                    /\ UNCHANGED ui
    /\ apc' = "tabs"
    /\ UNCHANGED <<runs, tmp_files, remove_failures, live_clients, send_failures>>
    /\ UNCHANGED <<sources, source, pressed, uncaught, tensor_shape, quantized,
                   tensor_given, invoked, audio_ok, probs, pred_idx, emotion,
                   mqtt_cmd, sent>>
    /\ UNCHANGED <<diskVars, mqttVars, OtherParts>>

\* int8: interpreter = load_interpreter(), under st.cache_resource.
\* tf.lite.Interpreter raises when the file is missing; nothing catches it
\* and nothing is cached.
LoadInterpreter ==
    /\ apc = "load"
    /\ app = "int8"
    /\ IF cache = "hit"
       THEN /\ apc' = "tabs"
            /\ UNCHANGED <<cache, interpreter, load_calls, ui, uncaught>>
       ELSE /\ load_calls' = load_calls + 1
            /\ IF ~model_file
               THEN /\ Uncaught("load_interpreter")
                    /\ UNCHANGED <<cache, interpreter>>
               ELSE /\ interpreter' = "ready"
                    /\ cache' = "hit"
                    /\ apc' = "tabs"
                    /\ UNCHANGED <<ui, uncaught>>
    /\ UNCHANGED <<classes, runs, tmp_files, remove_failures, live_clients,
                   send_failures>>
    /\ UNCHANGED <<sources, source, pressed, tensor_shape, quantized,
                   tensor_given, invoked, audio_ok, probs, pred_idx, emotion,
                   mqtt_cmd, sent>>
    /\ UNCHANGED <<diskVars, mqttVars, OtherParts>>

\* the script reaches its end
EndRun ==
    /\ apc = "tabs"
    /\ sources = <<>>
    /\ apc' = "idle"
    /\ UNCHANGED <<diskVars, procVars, runVars, mqttVars, OtherParts>>

(***************************************************************************)
(* week1: analyze_audio(source), once per audio input present in the run   *)
(***************************************************************************)

\* lines 157-162: the temporary file is written and the player shown
WriteTemp ==
    /\ apc = "tabs"
    /\ app = "week1"
    /\ sources # <<>>
    /\ source' = Head(sources)
    /\ sources' = Tail(sources)
    /\ tmp_files' = tmp_files + 1
    /\ ui' = ui \cup {"audio"}
    /\ apc' = "button"
    /\ UNCHANGED <<cache, interpreter, classes, load_calls, runs,
                   remove_failures, live_clients, send_failures>>
    /\ UNCHANGED <<pressed, uncaught, tensor_shape, quantized, tensor_given,
                   invoked, audio_ok, probs, pred_idx, emotion, mqtt_cmd, sent>>
    /\ UNCHANGED <<diskVars, mqttVars, OtherParts>>

\* lines 165-168: if st.button(...): if interpreter is None: st.error(...)
Button ==
    /\ apc = "button"
    /\ IF pressed # source
       THEN /\ apc' = "cleanup"
            /\ UNCHANGED ui
       ELSE IF interpreter = "None"
       THEN /\ ui' = ui \cup {"error: Model not loaded."}
            /\ apc' = "cleanup"
       ELSE /\ apc' = "preprocess"
            /\ UNCHANGED ui
    /\ UNCHANGED <<sources, source, pressed, uncaught, tensor_shape, quantized,
                   tensor_given, invoked, audio_ok, probs, pred_idx, emotion,
                   mqtt_cmd, sent>>
    /\ UNCHANGED <<diskVars, procVars, mqttVars, OtherParts>>

\* lines 109-143 and 171-173: preprocess_audio.  librosa.load fails or
\* returns; the tensor is the padded / truncated matrix with its two new axes
Preprocess ==
    /\ apc = "preprocess"
    /\ \/ /\ audio_ok' = "False"
          /\ ui' = ui \cup {"error: Error loading audio"}
          /\ apc' = "cleanup"
          /\ UNCHANGED tensor_shape
       \/ /\ audio_ok' = "True"
          /\ \E frames \in FrameCounts :
                tensor_shape' = ExpandDims(FixTimeSteps(MfccMatrix(frames, 1)))
          /\ apc' = "set_tensor"
          /\ UNCHANGED ui
    /\ UNCHANGED <<sources, source, pressed, uncaught, quantized, tensor_given,
                   invoked, probs, pred_idx, emotion, mqtt_cmd, sent>>
    /\ UNCHANGED <<diskVars, procVars, mqttVars, OtherParts>>

\* line 175: interpreter.set_tensor raises ValueError on a tensor whose
\* shape is not the model's; nothing catches it
SetTensor ==
    /\ apc = "set_tensor"
    /\ tensor_given' = TRUE
    /\ IF tensor_shape = model_shape
       THEN /\ apc' = "invoke"
            /\ UNCHANGED <<ui, uncaught>>
       ELSE Uncaught("set_tensor")
    /\ UNCHANGED <<sources, source, pressed, tensor_shape, quantized, invoked,
                   audio_ok, probs, pred_idx, emotion, mqtt_cmd, sent>>
    /\ UNCHANGED <<diskVars, procVars, mqttVars, OtherParts>>

\* lines 176-177: interpreter.invoke() returns and the output is read, or
\* it raises; nothing catches it
Invoke ==
    /\ apc = "invoke"
    /\ \/ /\ invoked' = TRUE
          /\ probs' \in Outputs(Len(classes))
          /\ apc' = "result"
          /\ UNCHANGED <<ui, uncaught>>
       \/ /\ Uncaught("invoke")
          /\ UNCHANGED <<invoked, probs>>
    /\ UNCHANGED <<sources, source, pressed, tensor_shape, quantized,
                   tensor_given, audio_ok, pred_idx, emotion, mqtt_cmd, sent>>
    /\ UNCHANGED <<diskVars, procVars, mqttVars, OtherParts>>

\* lines 180-196: argmax, label, safety status and command
Result ==
    /\ apc = "result"
    /\ pred_idx' = Argmax(probs)
    /\ emotion' = classes[pred_idx']
    /\ mqtt_cmd' = MqttCmd(emotion')
    /\ apc' = "mqtt_connect"
    /\ UNCHANGED <<sources, source, pressed, ui, uncaught, tensor_shape,
                   quantized, tensor_given, invoked, audio_ok, probs, sent>>
    /\ UNCHANGED <<diskVars, procVars, mqttVars, OtherParts>>

(***************************************************************************)
(* week1: send_to_wokwi(command).  The whole body is inside try; the       *)
(* handler shows the error and returns False.                              *)
(***************************************************************************)

\* lines 76-78: except Exception as e: st.error(...); return False.
\* The client of the call stays as the failing statement left it.
MqttExcept ==
    /\ ui' = ui \cup {"error: MQTT Error"}
    /\ sent' = "False"
    /\ send_failures' = send_failures + 1
    /\ live_clients' = live_clients
            + (IF client'.connected \/ client'.loop THEN 1 ELSE 0)
    /\ apc' = "display"

\* lines 58-62: a new client; connect returns, or raises without a connection
MqttConnect ==
    /\ apc = "mqtt_connect"
    /\ send_calls' = send_calls + 1
    /\ \/ /\ client' = [connected |-> TRUE, loop |-> FALSE]
          /\ apc' = "mqtt_loop_start"
          /\ UNCHANGED <<ui, sent, send_failures, live_clients>>
       \/ /\ client' = NoClient
          /\ MqttExcept
    /\ UNCHANGED <<cache, interpreter, classes, load_calls, runs, tmp_files,
                   remove_failures>>
    /\ UNCHANGED <<sources, source, pressed, uncaught, tensor_shape, quantized,
                   tensor_given, invoked, audio_ok, probs, pred_idx, emotion,
                   mqtt_cmd>>
    /\ UNCHANGED <<rc, acked, published, publish_calls>>
    /\ UNCHANGED <<diskVars, OtherParts>>

\* line 63: the network loop thread starts
MqttLoopStart ==
    /\ apc = "mqtt_loop_start"
    /\ client' = [client EXCEPT !.loop = TRUE]
    /\ apc' = "mqtt_publish"
    /\ UNCHANGED <<rc, acked, published, send_calls, publish_calls>>
    /\ UNCHANGED <<diskVars, procVars, runVars, OtherParts>>

\* line 66: publish queues the message and returns its info; rc is
\* MQTT_ERR_NO_CONN when the connection is already gone
MqttPublish ==
    /\ apc = "mqtt_publish"
    /\ publish_calls' = publish_calls + 1
    /\ published' = mqtt_cmd
    /\ \/ /\ rc' = "MQTT_ERR_SUCCESS"
          /\ UNCHANGED client
       \/ /\ rc' = "MQTT_ERR_NO_CONN"
          /\ client' = [client EXCEPT !.connected = FALSE]
    /\ apc' = "mqtt_wait"
    /\ UNCHANGED <<acked, send_calls>>
    /\ UNCHANGED <<diskVars, procVars, runVars, OtherParts>>

\* line 69: wait_for_publish(timeout=2.0) raises when rc is an error; else
\* it returns when the acknowledgment arrives or when the 2 seconds are over
MqttWait ==
    /\ apc = "mqtt_wait"
    /\ IF rc # "MQTT_ERR_SUCCESS"
       THEN /\ UNCHANGED <<client, acked>>
            /\ MqttExcept
       ELSE /\ acked' \in BOOLEAN
            /\ apc' = "mqtt_cleanup"
            /\ UNCHANGED <<client, ui, sent, send_failures, live_clients>>
    /\ UNCHANGED <<cache, interpreter, classes, load_calls, runs, tmp_files,
                   remove_failures>>
    /\ UNCHANGED <<sources, source, pressed, uncaught, tensor_shape, quantized,
                   tensor_given, invoked, audio_ok, probs, pred_idx, emotion,
                   mqtt_cmd>>
    /\ UNCHANGED <<rc, published, send_calls, publish_calls>>
    /\ UNCHANGED <<diskVars, OtherParts>>

\* lines 72-74: loop_stop, disconnect, return True
MqttCleanup ==
    /\ apc = "mqtt_cleanup"
    /\ client' = NoClient
    /\ sent' = "True"
    /\ apc' = "display"
    /\ UNCHANGED <<sources, source, pressed, ui, uncaught, tensor_shape,
                   quantized, tensor_given, invoked, audio_ok, probs, pred_idx,
                   emotion, mqtt_cmd>>
    /\ UNCHANGED <<rc, acked, published, send_calls, publish_calls>>
    /\ UNCHANGED <<diskVars, procVars, OtherParts>>

\* Display that shows the result only after a successful notification
Display_OnlyIfSent ==
    /\ apc = "display"
    /\ ui' = ui \cup (IF sent = "True"
                       THEN {"result", "bar_chart", "success: Signal sent"}
                       ELSE {"error: Failed to send signal"})
    /\ apc' = "cleanup"
    /\ UNCHANGED <<sources, source, pressed, uncaught, tensor_shape, quantized,
                   tensor_given, invoked, audio_ok, probs, pred_idx, emotion,
                   mqtt_cmd, sent>>
    /\ UNCHANGED <<diskVars, procVars, mqttVars, OtherParts>>

\* lines 202-212: the result, the outcome of the notification, the chart
Display ==
    /\ apc = "display"
    /\ ui' = ui \cup {"result", "bar_chart"}
                \cup (IF sent = "True" THEN {"success: Signal sent"}
                      ELSE {"error: Failed to send signal"})
    /\ apc' = "cleanup"
    /\ UNCHANGED <<sources, source, pressed, uncaught, tensor_shape, quantized,
                   tensor_given, invoked, audio_ok, probs, pred_idx, emotion,
                   mqtt_cmd, sent>>
    /\ UNCHANGED <<diskVars, procVars, mqttVars, OtherParts>>

\* lines 214-218: try: os.remove(audio_path) / except: pass
Cleanup ==
    /\ apc = "cleanup"
    /\ \/ /\ tmp_files' = tmp_files - 1
          /\ UNCHANGED remove_failures
       \/ /\ remove_failures' = remove_failures + 1
          /\ UNCHANGED tmp_files
    /\ apc' = "tabs"
    /\ UNCHANGED <<cache, interpreter, classes, load_calls, runs, live_clients,
                   send_failures>>
    /\ UNCHANGED <<diskVars, runVars, mqttVars, OtherParts>>

(***************************************************************************)
(* int8: the upload block, lines 95-135.  Everything between the write of  *)
(* the temporary file and its removal is inside try / except Exception /   *)
(* finally.                                                                *)
(***************************************************************************)

\* lines 131-132: except Exception as e: st.error(...); then the finally block
InferenceExcept ==
    /\ ui' = ui \cup {"error: Error during inference"}
    /\ apc' = "i8_finally"

\* lines 95-98
I8WriteTemp ==
    /\ apc = "tabs"
    /\ app = "int8"
    /\ sources # <<>>
    /\ source' = Head(sources)
    /\ sources' = Tail(sources)
    /\ tmp_files' = tmp_files + 1
    /\ apc' = "i8_load_audio"
    /\ UNCHANGED <<cache, interpreter, classes, load_calls, runs,
                   remove_failures, live_clients, send_failures>>
    /\ UNCHANGED <<pressed, ui, uncaught, tensor_shape, quantized, tensor_given,
                   invoked, audio_ok, probs, pred_idx, emotion, mqtt_cmd, sent>>
    /\ UNCHANGED <<diskVars, mqttVars, OtherParts>>

\* line 101: librosa.load returns or raises
I8LoadAudio ==
    /\ apc = "i8_load_audio"
    /\ \/ /\ audio_ok' = "True"
          /\ apc' = "i8_preprocess"
          /\ UNCHANGED ui
       \/ /\ audio_ok' = "False"
          /\ InferenceExcept
    /\ UNCHANGED <<sources, source, pressed, uncaught, tensor_shape, quantized,
                   tensor_given, invoked, probs, pred_idx, emotion, mqtt_cmd, sent>>
    /\ UNCHANGED <<diskVars, procVars, mqttVars, OtherParts>>

\* I8Preprocess without the shape validation
I8Preprocess_NoCheck ==
    /\ apc = "i8_preprocess"
    /\ tensor_shape' = MEL_SHAPE
    /\ quantized' = model_int8
    /\ apc' = "i8_set_tensor"
    /\ UNCHANGED <<sources, source, pressed, ui, uncaught, tensor_given, invoked,
                   audio_ok, probs, pred_idx, emotion, mqtt_cmd, sent>>
    /\ UNCHANGED <<diskVars, procVars, mqttVars, OtherParts>>

\* lines 40-82 and 103: preprocess_audio.  The shape is validated first,
\* then the tensor is quantized when the model's input is int8
I8Preprocess ==
    /\ apc = "i8_preprocess"
    /\ tensor_shape' = MEL_SHAPE
    /\ IF tensor_shape' # model_shape
       THEN /\ InferenceExcept
            /\ UNCHANGED quantized
       ELSE /\ quantized' = model_int8
            /\ apc' = "i8_set_tensor"
            /\ UNCHANGED ui
    /\ UNCHANGED <<sources, source, pressed, uncaught, tensor_given, invoked,
                   audio_ok, probs, pred_idx, emotion, mqtt_cmd, sent>>
    /\ UNCHANGED <<diskVars, procVars, mqttVars, OtherParts>>

\* lines 105-108
I8SetTensor ==
    /\ apc = "i8_set_tensor"
    /\ tensor_given' = TRUE
    /\ IF tensor_shape = model_shape
       THEN /\ apc' = "i8_invoke"
            /\ UNCHANGED ui
       ELSE InferenceExcept
    /\ UNCHANGED <<sources, source, pressed, uncaught, tensor_shape, quantized,
                   invoked, audio_ok, probs, pred_idx, emotion, mqtt_cmd, sent>>
    /\ UNCHANGED <<diskVars, procVars, mqttVars, OtherParts>>

\* lines 109-113
I8Invoke ==
    /\ apc = "i8_invoke"
    /\ \/ /\ invoked' = TRUE
          /\ probs' \in Outputs(Len(ID_TO_LABEL))
          /\ apc' = "i8_output"
          /\ UNCHANGED ui
       \/ /\ InferenceExcept
          /\ UNCHANGED <<invoked, probs>>
    /\ UNCHANGED <<sources, source, pressed, uncaught, tensor_shape, quantized,
                   tensor_given, audio_ok, pred_idx, emotion, mqtt_cmd, sent>>
    /\ UNCHANGED <<diskVars, procVars, mqttVars, OtherParts>>

\* lines 115-129: dequantization and softmax are increasing maps of each
\* output value, so the argmax is that of the raw output
I8Output ==
    /\ apc = "i8_output"
    /\ pred_idx' = Argmax(probs)
    /\ emotion' = ID_TO_LABEL[pred_idx']
    /\ ui' = ui \cup {"success: Prediction", "confidence"}
    /\ apc' = "i8_finally"
    /\ UNCHANGED <<sources, source, pressed, uncaught, tensor_shape, quantized,
                   tensor_given, invoked, audio_ok, probs, mqtt_cmd, sent>>
    /\ UNCHANGED <<diskVars, procVars, mqttVars, OtherParts>>

\* lines 134-135: finally: os.remove(audio_path); a failure leaves the script
I8Finally ==
    /\ apc = "i8_finally"
    /\ \/ /\ tmp_files' = tmp_files - 1
          /\ apc' = "tabs"
          /\ UNCHANGED <<remove_failures, ui, uncaught>>
       \/ /\ remove_failures' = remove_failures + 1
          /\ Uncaught("os.remove")
          /\ UNCHANGED tmp_files
    /\ UNCHANGED <<cache, interpreter, classes, load_calls, runs, live_clients,
                   send_failures>>
    /\ UNCHANGED <<sources, source, pressed, tensor_shape, quantized,
                   tensor_given, invoked, audio_ok, probs, pred_idx, emotion,
                   mqtt_cmd, sent>>
    /\ UNCHANGED <<diskVars, mqttVars, OtherParts>>

AppNext ==
    \/ StartRun \/ LoadResources \/ LoadInterpreter \/ EndRun
    \/ WriteTemp \/ Button \/ Preprocess \/ SetTensor \/ Invoke \/ Result
    \/ MqttConnect \/ MqttLoopStart \/ MqttPublish \/ MqttWait \/ MqttCleanup
    \/ Display \/ Cleanup
    \/ I8WriteTemp \/ I8LoadAudio \/ I8Preprocess \/ I8SetTensor \/ I8Invoke
    \/ I8Output \/ I8Finally

SpecApp == AppInit /\ [][AppNext]_vars

AppTypeOK ==
    /\ app \in Apps
    /\ apc \in {"idle", "load", "tabs", "button", "preprocess", "set_tensor",
                 "invoke", "result", "mqtt_connect", "mqtt_loop_start",
                 "mqtt_publish", "mqtt_wait", "mqtt_cleanup", "display",
                 "cleanup", "i8_load_audio", "i8_preprocess", "i8_set_tensor",
                 "i8_invoke", "i8_output", "i8_finally"}
    /\ tmp_files \in 0..(2 * MaxRuns)
    /\ sent \in {"unset", "True", "False"}

(***************************************************************************)
(* Properties of the apps                                                  *)
(***************************************************************************)

\* a prediction, a confidence or a classification result is on the page
PredictionShown ==
    ui \cap {"result", "bar_chart", "success: Prediction", "confidence"} # {}

\* preprocessing produced a tensor whose shape is not the model's
ShapeMismatch == tensor_shape # <<>> /\ tensor_shape # model_shape

\* C3 (as stated): whenever the notification fails, by a connection error or
\* because the acknowledgment does not arrive within the wait, send_to_wokwi
\* returns False and the caller shows the failure, never the success message.
C3_FailureReturnsFalse ==
    /\ (sent # "unset" /\ ~acked) => sent = "False"
    /\ ("result" \in ui /\ ~acked) =>
            /\ "error: Failed to send signal" \in ui
            /\ "success: Signal sent" \notin ui

\* C4 (as stated): in every pipeline a shape mismatch is caught by a check
\* before quantization: the interpreter is never given the tensor or
\* invoked, and no prediction or confidence is displayed.
C4_ShapeCheckedEverywhere ==
    ShapeMismatch =>
        /\ ~quantized
        /\ ~tensor_given
        /\ ~invoked
        /\ ~PredictionShown

\* C4 (amended): on a shape mismatch no pipeline quantizes, invokes the
\* interpreter, publishes or displays a prediction or confidence.  The int8
\* pipeline checks the shape itself, before quantization, never gives the
\* tensor to the interpreter and reports "Error during inference".  The
\* week1 pipeline has no check of its own: it gives the tensor to
\* interpreter.set_tensor, whose exception ends the run and is what the
\* user is shown.
C4_ShapeMismatchFails ==
    ShapeMismatch =>
        /\ ~quantized
        /\ ~invoked
        /\ ~PredictionShown
        /\ send_calls = 0
        /\ app = "int8" =>
                /\ ~tensor_given
                /\ "error: Error during inference" \in ui
        /\ (app = "week1" /\ apc # "set_tensor") =>
                /\ tensor_given
                /\ apc = "idle"
                /\ uncaught = "set_tensor"
                /\ "exception" \in ui

\* the int8 run is over after its own shape check rejected the tensor
C4_Witness ==
    /\ app = "int8"
    /\ ShapeMismatch
    /\ apc = "idle"
    /\ audio_ok = "True"
    /\ "error: Error during inference" \in ui
    /\ tmp_files = 0

\* C5 (as stated): when the model file or the label-array file is missing,
\* the absence is reported and the pipeline halts for the session: the
\* interpreter is never given a tensor or invoked, no prediction is shown,
\* nothing is published and the load is not attempted again.
C5_MissingFilesHalt ==
    (~model_file \/ (app = "week1" /\ classes_file = <<>>)) =>
        /\ ~tensor_given
        /\ ~invoked
        /\ ~PredictionShown
        /\ send_calls = 0
        /\ load_calls <= 1
        /\ (runs = 1 /\ apc \notin {"idle", "load"}) =>
                "error: Model file not found" \in ui

\* C5 (amended): when the model file is missing, no interaction of the
\* process produces a tensor, gives one to the interpreter, invokes it,
\* displays a prediction or publishes.  In the week1 app the absence is
\* reported by load_resources and the load is not attempted again.  In the
\* int8 app load_interpreter raises, the exception is what the user is
\* shown, and the load is attempted again in every interaction.  A missing
\* label-array file is not reported and halts nothing: the built-in table
\* of seven labels is used.
C5_MissingModelHalts ==
    /\ ~model_file =>
            /\ tensor_shape = <<>>
            /\ ~tensor_given
            /\ ~invoked
            /\ ~PredictionShown
            /\ send_calls = 0 /\ publish_calls = 0
            /\ interpreter # "ready"
            /\ app = "week1" =>
                    /\ load_calls <= 1
                    /\ (runs = 1 /\ apc \notin {"idle", "load"}) =>
                            "error: Model file not found" \in ui
                    /\ (pressed # "none" /\ apc = "idle") =>
                            "error: Model not loaded." \in ui
            /\ app = "int8" =>
                    /\ apc \in {"idle", "load"}
                    /\ apc = "idle" => load_calls = runs
                    /\ (apc = "idle" /\ runs >= 1) =>
                            uncaught = "load_interpreter" /\ "exception" \in ui
    /\ (app = "week1" /\ model_file /\ classes_file = <<>> /\ cache = "hit") =>
            /\ interpreter = "ready"
            /\ classes = DEFAULT_CLASSES
            /\ "error: Model file not found" \notin ui

\* week1 without its model file: the button is pressed in a second
\* interaction, the loader's body has run once
C5_Witness ==
    /\ app = "week1"
    /\ ~model_file
    /\ runs = 2
    /\ pressed # "none"
    /\ apc = "idle"
    /\ load_calls = 1
    /\ "error: Model not loaded." \in ui

\* C6 (as stated): every temporary file is deleted by the end of the
\* interaction that wrote it, on every path, and a failure of the deletion
\* is silently ignored.
C6_TempFilesRemoved ==
    /\ apc = "idle" => tmp_files = remove_failures
    /\ uncaught # "os.remove"

\* C8: in every interaction in which inference ran to completion the
\* result is displayed whether send_to_wokwi returned True or False, with
\* the outcome of the notification next to it; the publish is not retried;
\* and a failed notification neither ends the run with an exception nor
\* leaves the session without its interpreter.
C8_ResultStands ==
    /\ (app = "week1" /\ invoked /\ apc \in {"cleanup", "tabs", "button", "idle"}) =>
            /\ sent # "unset"
            /\ {"result", "bar_chart"} \subseteq ui
            /\ sent = "True" => "success: Signal sent" \in ui
            /\ sent = "False" =>
                    {"error: MQTT Error", "error: Failed to send signal"} \subseteq ui
    /\ send_calls <= 1
    /\ sent = "False" => uncaught = "none"
    /\ send_failures > 0 => interpreter = "ready" /\ cache = "hit"

\* a notification failed in an earlier interaction and this one displayed
\* its result and notified
C8_Witness ==
    /\ runs = 2
    /\ send_failures = 1
    /\ sent = "True"
    /\ apc = "idle"
    /\ "result" \in ui

\* C9 (as stated): whenever send_to_wokwi returns, by either path, its
\* client has its loop stopped and is disconnected, so nothing it opened is
\* alive when the next interaction begins.
C9_ClientTornDown ==
    /\ sent # "unset" => (~client.connected /\ ~client.loop)
    /\ apc = "idle" => live_clients = 0

\* C10: at most one publish per interaction, only after preprocessing
\* succeeded and the interpreter was invoked on that input; the payload is
\* D, C or S, decided by the label at the argmax index alone: D iff it is
\* 'fear', C iff it is 'angry', S otherwise.  No publish when the model is
\* not loaded or the audio fails to load.
C10_PublishOnce ==
    /\ send_calls <= 1
    /\ publish_calls <= send_calls
    /\ publish_calls = 0 <=> published = ""
    /\ send_calls = 1 =>
            /\ app = "week1"
            /\ audio_ok = "True"
            /\ tensor_given
            /\ invoked
            /\ \A j \in 1..Len(probs) : probs[j] <= probs[pred_idx]
            /\ emotion = classes[pred_idx]
    /\ publish_calls = 1 =>
            /\ published \in {"D", "C", "S"}
            /\ published = "D" <=> emotion = "fear"
            /\ published = "C" <=> emotion = "angry"
            /\ published = "S" <=> emotion \notin {"fear", "angry"}
    /\ (interpreter = "None" \/ audio_ok = "False") => send_calls = 0

\* 'angry' at the argmax index of a loaded label table was published as C
C10_Witness ==
    /\ apc = "idle"
    /\ classes = OTHER_CLASSES
    /\ pred_idx = 2
    /\ emotion = "angry"
    /\ published = "C"
    /\ publish_calls = 1

====
